---- MODULE Spec2Model ----
(***************************************************************************)
(* A model of the thumbor image proxy:                                     *)
(*   - src/src/main.rs: the request handler `generate` and the source      *)
(*     cache `retrieve_image` (an LruCache<u64, Bytes> behind a Mutex);     *)
(*   - src/src/engine/image_engine.rs: ImageEngine (apply, generate and    *)
(*     the per-operation transforms);                                      *)
(*   - src/src/pb/mod.rs: the filter presets, mix_with_color and the       *)
(*     conversions between ImageSpec and the {spec} string.                *)
(* Specifications: Spec (concurrent calls of retrieve_image against the    *)
(* cache), AliasSpec (the same with urls that share a key), LiveSpec (the  *)
(* same under a fair scheduler), HandlerSpec and GateSpec (concurrent      *)
(* requests through all of generate), EngineSpec (one engine applying one  *)
(* operation list, step by step), TransformSpec (one engine applying one   *)
(* operation to one buffer) and CodecSpec (an ImageSpec encoded to a       *)
(* string and decoded again).                                              *)
(***************************************************************************)
EXTENDS Integers, Sequences, FiniteSets, TLC

VARIABLES
    cap,        \* capacity of the LruCache, fixed by LruCache::new
    lru,        \* the cache entries, most recently used first: <<[key, val], ...>>
    lock,       \* the request holding the cache Mutex, or NoReq
    pc,         \* pc[r]: where request r stands in generate / retrieve_image
    url,        \* url[r]: the percent-decoded {url} of request r
    param,      \* param[r]: the {spec} path parameter of request r
    data,       \* data[r]: the bytes request r got from retrieve_image
    resp,       \* resp[r]: the status of the reqwest response being read
    hit,        \* hit[r]: the lookup of this call found the key (ghost)
    fetched,    \* fetched[r]: this call invoked reqwest::get (ghost)
    status,     \* status[r]: the outcome of the request
    recency,    \* keys in order of last access, most recent first (ghost)
    img0,       \* EngineSpec: the decoded source image
    specs,      \* EngineSpec: the operation list given to apply
    engine,     \* EngineSpec: ImageEngine.0, the buffer being transformed
    idx,        \* EngineSpec: position of the for loop of apply
    applied,    \* EngineSpec: the positions of specs dispatched so far (ghost)
    epc,        \* EngineSpec: "apply", "generate", "done", "panicked"
    out,        \* EngineSpec: result of generate: "none", "bytes", "panic"
    clist,      \* CodecSpec: the ImageSpec (operation list) to encode
    cstr,       \* CodecSpec: the {spec} string, a sequence of characters
    cdec,       \* CodecSpec: the ImageSpec decoded from cstr
    cpc         \* CodecSpec: "list", "string", "decoded", "rejected"

cacheVars == <<cap, lru, lock, pc, url, param, data, resp, hit, fetched, status, recency>>
engineVars == <<img0, specs, engine, idx, applied, epc, out>>
codecVars == <<clist, cstr, cdec, cpc>>
vars == <<cap, lru, lock, pc, url, param, data, resp, hit, fetched, status, recency,
          img0, specs, engine, idx, applied, epc, out, clist, cstr, cdec, cpc>>

(***************************************************************************)
(* Bounds of the model.                                                    *)
(***************************************************************************)
NumReqs == 2        \* requests in flight at once
Capacity == 2       \* stands for the 1024 of LruCache::new
MaxOps == 2         \* length of the operation lists of EngineSpec

Min(a, b) == IF a < b THEN a ELSE b
Max(a, b) == IF a > b THEN a ELSE b
Abs(a) == IF a < 0 THEN 0 - a ELSE a

(***************************************************************************)
(* Pixel buffers (image::DynamicImage).  A buffer is                        *)
(*   [fmt, w, h, px], px[y][x] = <<r, g, b, a>>, 1-based.                  *)
(* fmt is the DynamicImage variant.  Panicked stands for a panic of the    *)
(* thread that owns the engine.                                            *)
(***************************************************************************)
Panicked == [fmt |-> "panicked", w |-> 0, h |-> 0, px |-> <<>>]

MkImage(f, width, height, pixels) == [fmt |-> f, w |-> width, h |-> height, px |-> pixels]

\* DynamicImage::to_rgba8 / DynamicImage::ImageRgba8(..): the pixels are kept
\* (an Rgb8 pixel reads as alpha 255), the variant becomes Rgba8.
ToRgba8(img) == MkImage("Rgba8", img.w, img.h, img.px)

(***************************************************************************)
(* Enumerations of the wire schema.  The i32 fields of Resize and Filter   *)
(* are converted with TryFrom<i32>; the enumerators are the arms of the    *)
(* exhaustive matches of the source, numbered from 0 in that order.  "Err" *)
(* is the Err(..) the conversion gives for any other value.                *)
(***************************************************************************)
ResizeTypeTryFrom(v) ==
    CASE v = 0 -> "Normal"
      [] v = 1 -> "SeamCarve"
      [] OTHER -> "Err"

SampleFilterTryFrom(v) ==
    CASE v = 0 -> "Undefined"
      [] v = 1 -> "Nereast"
      [] v = 2 -> "Triangle"
      [] v = 3 -> "CatmullRom"
      [] v = 4 -> "Gaussian"
      [] v = 5 -> "Lanczos3"
      [] OTHER -> "Err"

FilterTryFrom(v) ==
    CASE v = 0 -> "Unspecified"
      [] v = 1 -> "Oceanic"
      [] v = 2 -> "Islands"
      [] v = 3 -> "Marine"
      [] OTHER -> "Err"

\* impl From<SampleFilter> for image::imageops::FilterType
FilterTypeFrom(sf) ==
    CASE sf = "Undefined" -> "Nearest"
      [] sf = "Nereast" -> "Nearest"
      [] sf = "Triangle" -> "Triangle"
      [] sf = "CatmullRom" -> "CatmullRom"
      [] sf = "Gaussian" -> "Gaussian"
      [] sf = "Lanczos3" -> "Lanczos3"

(***************************************************************************)
(* Crop                                                                    *)
(***************************************************************************)
\* a crop that copies from the top-left corner of the image
CropImmFromOrigin(img, x, y, width, height) ==
    LET cx == Min(x, img.w)
        cy == Min(y, img.h)
        ch == Min(height, img.h - cy)
        cw == Min(width, img.w - cx)
    IN  MkImage("Rgba8", cw, ch,
                [j \in 1..ch |-> [i \in 1..cw |-> img.px[j][i]]])

\* image::imageops::crop_imm(..).to_image(): the rectangle is clamped to the
\* image once more and its pixels are copied into a new Rgba8 buffer.
CropImm(img, x, y, width, height) ==
    LET cx == Min(x, img.w)
        cy == Min(y, img.h)
        ch == Min(height, img.h - cy)
        cw == Min(width, img.w - cx)
    IN  MkImage("Rgba8", cw, ch,
                [j \in 1..ch |-> [i \in 1..cw |-> img.px[cy + j][cx + i]]])

\* a Crop that answers a degenerate rectangle with an empty buffer
CropTransformEmpties(img, op) ==
    LET x1 == Min(op.x1, img.w)
        y1 == Min(op.y1, img.h)
        x2 == Min(op.x2, img.w)
        y2 == Min(op.y2, img.h)
    IN  IF x2 <= x1 \/ y2 <= y1
        THEN MkImage("Rgba8", 0, 0, <<>>)
        ELSE CropImm(img, op.x1, op.y1, x2 - x1, y2 - y1)

CropTransform(img, op) ==
    LET x1 == Min(op.x1, img.w)
        y1 == Min(op.y1, img.h)
        x2 == Min(op.x2, img.w)
        y2 == Min(op.y2, img.h)
    IN  IF x2 <= x1 \/ y2 <= y1
        THEN img
        ELSE CropImm(img, op.x1, op.y1, x2 - x1, y2 - y1)

(***************************************************************************)
(* Contrast: image::imageops::contrast maps every channel c of every pixel *)
(* to clamp(((c/255 - 0.5) * ((100 + level)/100)^2 + 0.5) * 255) and       *)
(* truncates.  Levels are whole numbers here.                              *)
(***************************************************************************)
ContrastChannel(c, level) ==
    LET num == (2 * c - 255) * (100 + level) * (100 + level) + 2550000
    IN  IF num <= 0 THEN 0
        ELSE IF num >= 255 * 20000 THEN 255
        ELSE num \div 20000

ContrastTransform(img, op) ==
    MkImage("Rgba8", img.w, img.h,
            [y \in 1..img.h |-> [x \in 1..img.w |->
                [k \in 1..4 |-> ContrastChannel(img.px[y][x][k], op.contrast)]]])

(***************************************************************************)
(* Resize / Normal: image::imageops::resize.  The result has exactly the   *)
(* requested size.  The pixel values are those of nearest sampling for     *)
(* every kernel: the kernels' arithmetic is not modelled.                  *)
(***************************************************************************)
ImageopsResize(img, nwidth, nheight, kernel) ==
    IF img.w = 0 \/ img.h = 0
    THEN MkImage("Rgba8", nwidth, nheight,
                 [y \in 1..nheight |-> [x \in 1..nwidth |-> <<0, 0, 0, 0>>]])
    ELSE MkImage("Rgba8", nwidth, nheight,
                 [y \in 1..nheight |-> [x \in 1..nwidth |->
                     img.px[((2 * y - 1) * img.h) \div (2 * nheight) + 1]
                           [((2 * x - 1) * img.w) \div (2 * nwidth) + 1]]])

(***************************************************************************)
(* Resize / SeamCarve: imageproc::seam_carving and image::imageops::rotate *)
(***************************************************************************)
Lum(p) == p[1] + p[2] + p[3]

\* energy of a pixel: the gradient magnitude over its neighbours
Energy(img, x, y) ==
    LET xl == Max(x - 1, 1)
        xr == Min(x + 1, img.w)
        yu == Max(y - 1, 1)
        yd == Min(y + 1, img.h)
    IN  Abs(Lum(img.px[y][xr]) - Lum(img.px[y][xl]))
        + Abs(Lum(img.px[yd][x]) - Lum(img.px[yu][x]))

\* the connected top-to-bottom paths: one column per row, steps of at most one column
SeamPaths(img) ==
    {p \in [1..img.h -> 1..img.w] :
        \A y \in 1..(img.h - 1) : Abs(p[y + 1] - p[y]) <= 1}

RECURSIVE SeamCostFrom(_, _, _)
SeamCostFrom(img, p, y) ==
    IF y > img.h THEN 0 ELSE Energy(img, p[y], y) + SeamCostFrom(img, p, y + 1)

SeamCost(img, p) == SeamCostFrom(img, p, 1)

\* find_vertical_seam: a path of least total energy
FindVerticalSeam(img) ==
    CHOOSE p \in SeamPaths(img) :
        \A q \in SeamPaths(img) : SeamCost(img, p) <= SeamCost(img, q)

\* remove_vertical_seam: drop pixel seam[y] of every row y, closing the gap
RemoveVerticalSeam(img, seam) ==
    MkImage("Rgba8", img.w - 1, img.h,
            [y \in 1..img.h |-> [x \in 1..(img.w - 1) |->
                IF x < seam[y] THEN img.px[y][x] ELSE img.px[y][x + 1]]])

\* image::imageops::rotate90: the pixel at (x, y) goes to (height - 1 - y, x)
Rotate90(img) ==
    MkImage("Rgba8", img.h, img.w,
            [y \in 1..img.w |-> [x \in 1..img.h |-> img.px[img.h + 1 - x][y]]])

\* a second quarter turn clockwise in the place of rotate270
Rotate270TurnsOn(img) ==
    MkImage("Rgba8", img.h, img.w,
            [y \in 1..img.w |-> [x \in 1..img.h |-> img.px[img.h + 1 - x][y]]])

\* image::imageops::rotate270: the pixel at (x, y) goes to (y, width - 1 - x)
Rotate270(img) ==
    MkImage("Rgba8", img.h, img.w,
            [y \in 1..img.w |-> [x \in 1..img.h |-> img.px[x][img.w + 1 - y]]])

\* one pass of the loop `for _ in 0..n`: find a seam, remove it.
\* find_vertical_seam asserts a width of at least 2.
RECURSIVE RemoveSeams(_, _)
RemoveSeams(img, n) ==
    IF n = 0 \/ img = Panicked THEN img
    ELSE IF img.w < 2 THEN Panicked
    ELSE RemoveSeams(RemoveVerticalSeam(ToRgba8(img), FindVerticalSeam(ToRgba8(img))), n - 1)

SeamCarve(img, op) ==
    LET diff_w == img.w - Min(img.w, op.width)
        diff_h == img.h - Min(img.h, op.height)
        carved == RemoveSeams(img, diff_w)
    IN  IF carved = Panicked THEN Panicked
        ELSE IF diff_h # 0
        THEN LET turned == RemoveSeams(Rotate90(carved), diff_h)
             IN  IF turned = Panicked THEN Panicked ELSE Rotate270(turned)
        ELSE carved

ResizeTransform(img, op) ==
    LET rtype == ResizeTypeTryFrom(op.rtype)
        sf == SampleFilterTryFrom(op.filter)
    IN  CASE rtype = "Err" -> Panicked
          [] rtype = "Normal" ->
                IF sf = "Err" THEN Panicked
                ELSE ImageopsResize(img, op.width, op.height, FilterTypeFrom(sf))
          [] rtype = "SeamCarve" -> SeamCarve(img, op)

(***************************************************************************)
(* Filter: pb::mix_with_color and Filter::apply                            *)
(***************************************************************************)
\* one channel of the blend, opacity in tenths:
\* (mix * opacity + current * (1 - opacity)).clamp(0, 255) as u8
MixChannel(current, mix, opacityTenths) ==
    LET opacity == Max(0, Min(10, opacityTenths))
        new == (mix * opacity + current * (10 - opacity)) \div 10
    IN  Max(0, Min(255, new))

\* img.as_mut_rgb8() is Some only for the Rgb8 variant; any other variant is
\* left as it is.
MixWithColor(img, mix_color, opacityTenths) ==
    IF img.fmt = "Rgb8"
    THEN [img EXCEPT !.px =
            [y \in 1..img.h |-> [x \in 1..img.w |->
                <<MixChannel(img.px[y][x][1], mix_color[1], opacityTenths),
                  MixChannel(img.px[y][x][2], mix_color[2], opacityTenths),
                  MixChannel(img.px[y][x][3], mix_color[3], opacityTenths),
                  img.px[y][x][4]>>]]]
    ELSE img

OpacityTenths == 2

\* a Filter that gives Unspecified the tint of Oceanic
FilterApplyTintsUnspecified(preset, img) ==
    CASE preset = "Unspecified" -> MixWithColor(img, <<0, 89, 173>>, OpacityTenths)
      [] preset = "Oceanic" -> MixWithColor(img, <<0, 89, 173>>, OpacityTenths)
      [] preset = "Islands" -> MixWithColor(img, <<0, 24, 95>>, OpacityTenths)
      [] preset = "Marine" -> MixWithColor(img, <<0, 14, 119>>, OpacityTenths)

\* Filter::apply: Unspecified does nothing, the other presets blend their tint
FilterApply(preset, img) ==
    CASE preset = "Unspecified" -> img
      [] preset = "Oceanic" -> MixWithColor(img, <<0, 89, 173>>, OpacityTenths)
      [] preset = "Islands" -> MixWithColor(img, <<0, 24, 95>>, OpacityTenths)
      [] preset = "Marine" -> MixWithColor(img, <<0, 14, 119>>, OpacityTenths)

FilterTransform(img, op) ==
    LET filter_type == FilterTryFrom(op.filter)
    IN  IF filter_type = "Err" THEN Panicked ELSE FilterApply(filter_type, img)

(***************************************************************************)
(* Flips and the watermark                                                 *)
(***************************************************************************)
FliphTransform(img, op) ==
    [img EXCEPT !.px = [y \in 1..img.h |-> [x \in 1..img.w |-> img.px[y][img.w + 1 - x]]]]

FlipvTransform(img, op) ==
    [img EXCEPT !.px = [y \in 1..img.h |-> [x \in 1..img.w |-> img.px[img.h + 1 - y][x]]]]

\* side of the watermark image (64 in the program)
WmSize == 1

\* WATERMARK: the logo, resized to WmSize x WmSize: opaque ink on the
\* diagonal cells, fully transparent elsewhere
WATERMARK ==
    MkImage("Rgba8", WmSize, WmSize,
            [y \in 1..WmSize |-> [x \in 1..WmSize |->
                IF (x + y) % 2 = 0 THEN <<10, 10, 10, 255>> ELSE <<0, 0, 0, 0>>]])

\* image::imageops::overlay: source-over of top onto bottom at (x, y), clipped
\* to bottom.  An Rgb8 bottom keeps no alpha.
Overlay(bottom, top, ox, oy) ==
    [bottom EXCEPT !.px =
        [y \in 1..bottom.h |-> [x \in 1..bottom.w |->
            IF /\ x - ox \in 1..top.w
               /\ y - oy \in 1..top.h
               /\ top.px[y - oy][x - ox][4] = 255
            THEN top.px[y - oy][x - ox]
            ELSE bottom.px[y][x]]]]

WatermarkTransform(img, op) == Overlay(img, WATERMARK, op.x, op.y)

(***************************************************************************)
(* ImageEngine::apply and ImageEngine::generate                            *)
(***************************************************************************)
\* the match of apply on spec.data
Transform(img, spec) ==
    CASE spec.data = "None" -> img
      [] spec.data = "Crop" -> CropTransform(img, spec)
      [] spec.data = "Resize" -> ResizeTransform(img, spec)
      [] spec.data = "Contrast" -> ContrastTransform(img, spec)
      [] spec.data = "Filter" -> FilterTransform(img, spec)
      [] spec.data = "Fliph" -> FliphTransform(img, spec)
      [] spec.data = "Flipv" -> FlipvTransform(img, spec)
      [] spec.data = "Watermark" -> WatermarkTransform(img, spec)

\* one iteration of `for spec in specs.iter()`; a panic ends the loop
ApplyOne(img, spec) == IF img = Panicked THEN Panicked ELSE Transform(img, spec)

\* the whole loop of apply, as a function of the buffer and the list
RECURSIVE ApplyAll(_, _)
ApplyAll(img, ops) ==
    IF ops = <<>> THEN img ELSE ApplyAll(ApplyOne(img, Head(ops)), Tail(ops))

\* DynamicImage::to_rgb8: alpha is dropped
ToRgb8(img) ==
    MkImage("Rgb8", img.w, img.h,
            [y \in 1..img.h |-> [x \in 1..img.w |->
                <<img.px[y][x][1], img.px[y][x][2], img.px[y][x][3], 255>>]])

\* img.write_to(..): the encoders reject an image with no pixels
WriteToOk(img, format) == img.w > 0 /\ img.h > 0

\* generate: the encoded image, or a panic from .expect(..)
Generate(img, format) ==
    LET enc == IF format = "Jpeg" THEN ToRgb8(img) ELSE img
    IN  IF WriteToOk(enc, format)
        THEN [result |-> "bytes", format |-> format, image |-> enc]
        ELSE [result |-> "panic", format |-> format, image |-> Panicked]

(***************************************************************************)
(* EngineSpec: one ImageEngine, built from a decoded image, applies one    *)
(* operation list and generates the output.                                *)
(***************************************************************************)
\* the decoded source images
ImgWide ==
    MkImage("Rgb8", 4, 2,
            << << <<200, 100, 50, 255>>, <<10, 20, 30, 255>>,
                  <<90, 90, 90, 255>>, <<255, 255, 255, 255>> >>,
               << <<0, 0, 0, 255>>, <<30, 60, 90, 255>>,
                  <<120, 40, 200, 255>>, <<5, 250, 125, 255>> >> >>)

ImgAlpha ==
    MkImage("Rgba8", 2, 2,
            << << <<200, 100, 50, 255>>, <<10, 20, 30, 128>> >>,
               << <<0, 0, 0, 0>>, <<30, 60, 90, 255>> >> >>)

ImgDot == MkImage("Rgb8", 1, 1, << << <<100, 150, 200, 255>> >> >>)

SourceImages == {ImgWide, ImgAlpha, ImgDot}

\* constructors of abi::Spec (pb::abi, and Spec::new_* of pb/mod.rs)
NoneSpec == [data |-> "None"]
CropSpec(a, b, c, d) == [data |-> "Crop", x1 |-> a, y1 |-> b, x2 |-> c, y2 |-> d]
ResizeSpec(wd, ht, rt, f) ==
    [data |-> "Resize", width |-> wd, height |-> ht, rtype |-> rt, filter |-> f]
ContrastSpec(c) == [data |-> "Contrast", contrast |-> c]
FilterSpec(f) == [data |-> "Filter", filter |-> f]
FliphSpec == [data |-> "Fliph"]
FlipvSpec == [data |-> "Flipv"]
WatermarkSpec(a, b) == [data |-> "Watermark", x |-> a, y |-> b]

\* the operations the lists are drawn from
OpAlphabet ==
    { NoneSpec,
      CropSpec(1, 0, 3, 2), CropSpec(2, 1, 1, 2),
      ResizeSpec(2, 1, 0, 5), ResizeSpec(2, 1, 0, 9), ResizeSpec(2, 1, 7, 1),
      ResizeSpec(0, 0, 0, 1), ResizeSpec(3, 1, 1, 9),
      ContrastSpec(-100),
      FilterSpec(3), FilterSpec(1), FilterSpec(0), FilterSpec(9),
      FliphSpec, FlipvSpec, WatermarkSpec(0, 0) }

RECURSIVE SeqsUpTo(_, _)
SeqsUpTo(S, n) ==
    IF n = 0 THEN {<<>>}
    ELSE LET shorter == SeqsUpTo(S, n - 1)
         IN  shorter \cup {Append(q, e) : q \in shorter, e \in S}

OpLists == SeqsUpTo(OpAlphabet, MaxOps)

\* the output format main.rs asks for
OutputFormat == "Png"

NoOutput == [result |-> "none", format |-> "none", image |-> Panicked]
NoReq == 0

EngineInit ==
    /\ img0 \in SourceImages
    /\ specs \in OpLists
    /\ engine = img0
    /\ idx = 1
    /\ applied = <<>>
    /\ epc = "apply"
    /\ out = NoOutput
    /\ cap = Capacity
    /\ lru = <<>>
    /\ lock = NoReq
    /\ pc = <<>>
    /\ url = <<>>
    /\ param = <<>>
    /\ data = <<>>
    /\ resp = <<>>
    /\ hit = <<>>
    /\ fetched = <<>>
    /\ status = <<>>
    /\ recency = <<>>
    /\ clist = <<>>
    /\ cstr = <<>>
    /\ cdec = <<>>
    /\ cpc = "off"

\* a loop that skips every other position
NextIdxSkips(i) == i + 2

\* the position the loop of apply takes after position i
NextIdx(i) == i + 1

\* one iteration of the for loop of apply: dispatch specs[idx]
ApplyStep ==
    /\ epc = "apply"
    /\ idx <= Len(specs)
    /\ engine' = Transform(engine, specs[idx])
    /\ applied' = Append(applied, idx)
    /\ idx' = NextIdx(idx)
    /\ epc' = IF engine' = Panicked THEN "panicked" ELSE "apply"
    /\ UNCHANGED <<img0, specs, out>>
    /\ UNCHANGED <<cacheVars, codecVars>>

\* the loop is over: apply returns
ApplyReturn ==
    /\ epc = "apply"
    /\ idx > Len(specs)
    /\ epc' = "generate"
    /\ UNCHANGED <<img0, specs, engine, idx, applied, out>>
    /\ UNCHANGED <<cacheVars, codecVars>>

\* engine.generate(format)
GenerateStep ==
    /\ epc = "generate"
    /\ out' = Generate(engine, OutputFormat)
    /\ epc' = IF out'.result = "panic" THEN "panicked" ELSE "done"
    /\ UNCHANGED <<img0, specs, engine, idx, applied>>
    /\ UNCHANGED <<cacheVars, codecVars>>

EngineNext == ApplyStep \/ ApplyReturn \/ GenerateStep

EngineSpec == EngineInit /\ [][EngineNext]_vars

(***************************************************************************)
(* TransformSpec: one ImageEngine applies a single operation to a buffer;  *)
(* the buffers and the fields of the operation range over small sets.      *)
(***************************************************************************)
MaxCoord == 5       \* largest coordinate or target size of an operation

ImgGrid ==
    MkImage("Rgba8", 3, 3,
            << << <<10, 10, 10, 255>>, <<200, 0, 0, 255>>, <<20, 20, 20, 128>> >>,
               << <<0, 90, 0, 255>>, <<30, 30, 30, 255>>, <<40, 40, 250, 255>> >>,
               << <<50, 50, 50, 0>>, <<60, 160, 60, 255>>, <<70, 70, 70, 255>> >> >>)

TransformImages == SourceImages \cup {ImgGrid}

\* every Crop, every Resize/SeamCarve and every Filter preset within the bound
TransformOps ==
    {CropSpec(a, b, c, d) : a \in 0..MaxCoord, b \in 0..MaxCoord,
                            c \in 0..MaxCoord, d \in 0..MaxCoord}
    \cup {ResizeSpec(tw, th, 1, 0) : tw \in 0..MaxCoord, th \in 0..MaxCoord}
    \cup {FilterSpec(f) : f \in 0..3}

TransformInit ==
    /\ img0 \in TransformImages
    /\ specs \in {<<op>> : op \in TransformOps}
    /\ engine = img0
    /\ idx = 1
    /\ applied = <<>>
    /\ epc = "apply"
    /\ out = NoOutput
    /\ cap = Capacity
    /\ lru = <<>>
    /\ lock = NoReq
    /\ pc = <<>>
    /\ url = <<>>
    /\ param = <<>>
    /\ data = <<>>
    /\ resp = <<>>
    /\ hit = <<>>
    /\ fetched = <<>>
    /\ status = <<>>
    /\ recency = <<>>
    /\ clist = <<>>
    /\ cstr = <<>>
    /\ cdec = <<>>
    /\ cpc = "off"

TransformSpec == TransformInit /\ [][EngineNext]_vars

(***************************************************************************)
(* The source cache: lru::LruCache<u64, Bytes> as used by retrieve_image.  *)
(* The cache is a sequence of entries [key, val], most recently used first.*)
(***************************************************************************)
Urls == {"a", "b", "c"}

\* DefaultHasher over the url string: the 64-bit key of the url.  There are
\* more url strings than keys: "d" stands for a url whose key is that of "a"
Hash(u) ==
    CASE u = "a" -> 11
      [] u = "b" -> 22
      [] u = "c" -> 33
      [] u = "d" -> 11

\* the urls of AliasSpec, two of them with the same key
AliasUrls == {"a", "b", "d"}

Keys(c) == {c[i].key : i \in 1..Len(c)}
IndexOf(c, k) == CHOOSE i \in 1..Len(c) : c[i].key = k
Without(c, i) == SubSeq(c, 1, i - 1) \o SubSeq(c, i + 1, Len(c))

\* LruCache::new(NonZero::new(1024).unwrap())
LruNew == <<>>

\* guard.get(&key): the value, if any
LruPeek(c, k) == c[IndexOf(c, k)].val

\* a lookup that leaves the order of the entries as it is
LruGetNoPromote(c, k) == c

\* guard.get(&key): the cache afterwards, with the entry moved to the front
LruGet(c, k) ==
    IF k \in Keys(c) THEN <<c[IndexOf(c, k)]>> \o Without(c, IndexOf(c, k)) ELSE c

\* an insert that keeps the value already stored for the key
LruPutKeepsOld(c, capacity, k, v) ==
    IF k \in Keys(c)
    THEN <<c[IndexOf(c, k)]>> \o Without(c, IndexOf(c, k))
    ELSE IF Len(c) >= capacity
    THEN <<[key |-> k, val |-> v]>> \o SubSeq(c, 1, capacity - 1)
    ELSE <<[key |-> k, val |-> v]>> \o c

\* an insert that drops the most recently used entry of a full cache
LruPutEvictsNewest(c, capacity, k, v) ==
    IF k \in Keys(c)
    THEN <<[key |-> k, val |-> v]>> \o Without(c, IndexOf(c, k))
    ELSE IF Len(c) >= capacity
    THEN <<[key |-> k, val |-> v]>> \o SubSeq(c, 2, Len(c))
    ELSE <<[key |-> k, val |-> v]>> \o c

\* an insert that never drops an entry
LruPutNoEvict(c, capacity, k, v) ==
    IF k \in Keys(c)
    THEN <<[key |-> k, val |-> v]>> \o Without(c, IndexOf(c, k))
    ELSE <<[key |-> k, val |-> v]>> \o c

\* guard.put(key, data): an existing entry gets the new value and moves to the
\* front; otherwise a full cache drops its last entry and the new one goes first
LruPut(c, capacity, k, v) ==
    IF k \in Keys(c)
    THEN <<[key |-> k, val |-> v]>> \o Without(c, IndexOf(c, k))
    ELSE IF Len(c) >= capacity
    THEN <<[key |-> k, val |-> v]>> \o SubSeq(c, 1, capacity - 1)
    ELSE <<[key |-> k, val |-> v]>> \o c

\* the order of last access: k becomes the most recent key (ghost)
Touch(rec, k) == <<k>> \o SelectSeq(rec, LAMBDA e : e # k)

(***************************************************************************)
(* Requests: generate and retrieve_image of main.rs                        *)
(***************************************************************************)
Reqs == 1..NumReqs

\* what a fetch of a url can deliver: an image file (with a success status)
\* or the body of an error page (with any other status)
NoData == [url |-> "", v |-> "none"]
Payload(u, variant) == [url |-> u, v |-> variant]

\* image::load_from_memory on the fetched bytes (TryFrom<Bytes> for ImageEngine)
LoadFromMemory(bytes) ==
    CASE bytes.v = "image" -> ImgDot
      [] OTHER -> Panicked

ImageLoads(bytes) == bytes.v = "image"

\* the {spec} path parameter: a string that decodes to an operation list, or
\* one that does not decode (bad base64 or bad framing)
SpecString(ops) == [decodes |-> TRUE, specs |-> ops]
Malformed == [decodes |-> FALSE, specs |-> <<>>]
NoParam == [decodes |-> FALSE, specs |-> <<NoneSpec>>]

\* a conversion that accepts every string
ImageSpecTryFromAccepts(s) == "Ok"

\* TryFrom<&str> for ImageSpec
ImageSpecTryFrom(s) == IF s.decodes THEN "Ok" ELSE "Err"

Params ==
    { Malformed,
      SpecString(<<>>),
      SpecString(<<ResizeSpec(0, 0, 0, 1)>>) }

\* a failed fetch that stores an empty entry for the key
CacheAfterFetchErrStores(c, capacity, k) == LruPut(c, capacity, k, NoData)

\* the cache when reqwest::get or resp.bytes() fails: `?` returns before the
\* insert, nothing is stored
CacheAfterFetchErr(c, capacity, k) == c

\* a guard that lives on after the lookup
GuardKeptAfterLookup(r) == r

\* the guard after the block of the lookup ends (it is dropped)
GuardAfterLookup(r) == NoReq

\* a guard that lives on after retrieve_image has returned
GuardKeptAfterPut(r) == r

\* the guard when retrieve_image returns after the insert (it is dropped)
GuardAfterPut(r) == NoReq

Init ==
    /\ cap = Capacity
    /\ lru = LruNew
    /\ lock = NoReq
    /\ pc = [r \in Reqs |-> "idle"]
    /\ url = [r \in Reqs |-> ""]
    /\ param = [r \in Reqs |-> NoParam]
    /\ data = [r \in Reqs |-> NoData]
    /\ resp = [r \in Reqs |-> 0]
    /\ hit = [r \in Reqs |-> FALSE]
    /\ fetched = [r \in Reqs |-> FALSE]
    /\ status = [r \in Reqs |-> "none"]
    /\ recency = <<>>
    /\ img0 = Panicked
    /\ specs = <<>>
    /\ engine = Panicked
    /\ idx = 0
    /\ applied = <<>>
    /\ epc = "off"
    /\ out = NoOutput
    /\ clist = <<>>
    /\ cstr = <<>>
    /\ cdec = <<>>
    /\ cpc = "off"

\* a request GET /image/{spec}/{url} arrives
Accept(r, u, p) ==
    /\ pc[r] = "idle"
    /\ pc' = [pc EXCEPT ![r] = "spec"]
    /\ url' = [url EXCEPT ![r] = u]
    /\ param' = [param EXCEPT ![r] = p]
    /\ UNCHANGED <<cap, lru, lock, data, resp, hit, fetched, status, recency>>
    /\ UNCHANGED <<engineVars, codecVars>>

\* generate: params.spec.as_str().try_into() fails
SpecDecodeErr(r) ==
    /\ pc[r] = "spec"
    /\ ImageSpecTryFrom(param[r]) = "Err"
    /\ status' = [status EXCEPT ![r] = "400"]
    /\ pc' = [pc EXCEPT ![r] = "done"]
    /\ UNCHANGED <<cap, lru, lock, url, param, data, resp, hit, fetched, recency>>
    /\ UNCHANGED <<engineVars, codecVars>>

\* generate: the spec decodes; retrieve_image is called and hashes the url
SpecDecodeOk(r) ==
    /\ pc[r] = "spec"
    /\ ImageSpecTryFrom(param[r]) = "Ok"
    /\ pc' = [pc EXCEPT ![r] = "lock1"]
    /\ UNCHANGED <<cap, lru, lock, url, param, data, resp, hit, fetched, status, recency>>
    /\ UNCHANGED <<engineVars, codecVars>>

\* retrieve_image: cache.lock().unwrap() of the lookup
Lock1(r) ==
    /\ pc[r] = "lock1"
    /\ lock = NoReq
    /\ lock' = r
    /\ pc' = [pc EXCEPT ![r] = "get"]
    /\ UNCHANGED <<cap, lru, url, param, data, resp, hit, fetched, status, recency>>
    /\ UNCHANGED <<engineVars, codecVars>>

\* retrieve_image: guard.get(&key) is Some(data): return Ok(data.to_owned())
CacheHit(r) ==
    /\ pc[r] = "get"
    /\ lock = r
    /\ Hash(url[r]) \in Keys(lru)
    /\ data' = [data EXCEPT ![r] = LruPeek(lru, Hash(url[r]))]
    /\ lru' = LruGet(lru, Hash(url[r]))
    /\ recency' = Touch(recency, Hash(url[r]))
    /\ hit' = [hit EXCEPT ![r] = TRUE]
    /\ lock' = GuardAfterLookup(r)
    /\ pc' = [pc EXCEPT ![r] = "image"]
    /\ UNCHANGED <<cap, url, param, resp, fetched, status>>
    /\ UNCHANGED <<engineVars, codecVars>>

\* retrieve_image: guard.get(&key) is None: the block ends, reqwest::get starts
CacheMiss(r) ==
    /\ pc[r] = "get"
    /\ lock = r
    /\ Hash(url[r]) \notin Keys(lru)
    /\ lru' = LruGet(lru, Hash(url[r]))
    /\ lock' = GuardAfterLookup(r)
    /\ fetched' = [fetched EXCEPT ![r] = TRUE]
    /\ pc' = [pc EXCEPT ![r] = "fetch"]
    /\ UNCHANGED <<cap, url, param, data, resp, hit, status, recency>>
    /\ UNCHANGED <<engineVars, codecVars>>

\* reqwest::get(url).await is Ok: a response with some status has arrived
GetOk(r, st) ==
    /\ pc[r] = "fetch"
    /\ resp' = [resp EXCEPT ![r] = st]
    /\ pc' = [pc EXCEPT ![r] = "body"]
    /\ UNCHANGED <<cap, lru, lock, url, param, data, hit, fetched, status, recency>>
    /\ UNCHANGED <<engineVars, codecVars>>

\* reqwest::get(url).await is Err: `?` returns it, generate answers BAD_REQUEST
GetErr(r) ==
    /\ pc[r] = "fetch"
    /\ lru' = CacheAfterFetchErr(lru, cap, Hash(url[r]))
    /\ status' = [status EXCEPT ![r] = "400"]
    /\ pc' = [pc EXCEPT ![r] = "done"]
    /\ UNCHANGED <<cap, lock, url, param, data, resp, hit, fetched, recency>>
    /\ UNCHANGED <<engineVars, codecVars>>

\* resp.bytes().await is Ok: the body of the response
BytesOk(r, variant) ==
    /\ pc[r] = "body"
    /\ variant = (IF resp[r] = 200 THEN "image" ELSE "errpage")
    /\ data' = [data EXCEPT ![r] = Payload(url[r], variant)]
    /\ resp' = [resp EXCEPT ![r] = 0]
    /\ pc' = [pc EXCEPT ![r] = "lock2"]
    /\ UNCHANGED <<cap, lru, lock, url, param, hit, fetched, status, recency>>
    /\ UNCHANGED <<engineVars, codecVars>>

\* resp.bytes().await is Err: `?` returns it, generate answers BAD_REQUEST
BytesErr(r) ==
    /\ pc[r] = "body"
    /\ lru' = CacheAfterFetchErr(lru, cap, Hash(url[r]))
    /\ status' = [status EXCEPT ![r] = "400"]
    /\ resp' = [resp EXCEPT ![r] = 0]
    /\ pc' = [pc EXCEPT ![r] = "done"]
    /\ UNCHANGED <<cap, lock, url, param, data, hit, fetched, recency>>
    /\ UNCHANGED <<engineVars, codecVars>>

\* retrieve_image: cache.lock().unwrap() of the insert
Lock2(r) ==
    /\ pc[r] = "lock2"
    /\ lock = NoReq
    /\ lock' = r
    /\ pc' = [pc EXCEPT ![r] = "put"]
    /\ UNCHANGED <<cap, lru, url, param, data, resp, hit, fetched, status, recency>>
    /\ UNCHANGED <<engineVars, codecVars>>

\* retrieve_image: guard.put(key, data.clone()); Ok(data)
CachePut(r) ==
    /\ pc[r] = "put"
    /\ lock = r
    /\ lru' = LruPut(lru, cap, Hash(url[r]), data[r])
    /\ recency' = Touch(recency, Hash(url[r]))
    /\ lock' = GuardAfterPut(r)
    /\ pc' = [pc EXCEPT ![r] = "image"]
    /\ UNCHANGED <<cap, url, param, data, resp, hit, fetched, status>>
    /\ UNCHANGED <<engineVars, codecVars>>

\* generate: data.try_into() fails: INTERNAL_SERVER_ERROR
EngineTryFromErr(r) ==
    /\ pc[r] = "image"
    /\ ~ImageLoads(data[r])
    /\ status' = [status EXCEPT ![r] = "500"]
    /\ pc' = [pc EXCEPT ![r] = "done"]
    /\ UNCHANGED <<cap, lru, lock, url, param, data, resp, hit, fetched, recency>>
    /\ UNCHANGED <<engineVars, codecVars>>

\* the outcome of engine.apply(&spec.specs) and engine.generate(Png) for a
\* decoded image: Ok with the image/png header, or a panic of the handler
RenderStatus(bytes, ops) ==
    LET applied_img == ApplyAll(LoadFromMemory(bytes), ops)
    IN  IF applied_img = Panicked THEN "panic"
        ELSE IF Generate(applied_img, OutputFormat).result = "panic" THEN "panic"
        ELSE "200 image/png"

\* generate: the image loads; apply, generate, respond
Render(r) ==
    /\ pc[r] = "image"
    /\ ImageLoads(data[r])
    /\ status' = [status EXCEPT ![r] = RenderStatus(data[r], param[r].specs)]
    /\ pc' = [pc EXCEPT ![r] = "done"]
    /\ UNCHANGED <<cap, lru, lock, url, param, data, resp, hit, fetched, recency>>
    /\ UNCHANGED <<engineVars, codecVars>>

\* the response is sent: the task of the request ends
Finish(r) ==
    /\ pc[r] = "done"
    /\ pc' = [pc EXCEPT ![r] = "idle"]
    /\ url' = [url EXCEPT ![r] = ""]
    /\ param' = [param EXCEPT ![r] = NoParam]
    /\ data' = [data EXCEPT ![r] = NoData]
    /\ hit' = [hit EXCEPT ![r] = FALSE]
    /\ fetched' = [fetched EXCEPT ![r] = FALSE]
    /\ status' = [status EXCEPT ![r] = "none"]
    /\ UNCHANGED <<cap, lru, lock, resp, recency>>
    /\ UNCHANGED <<engineVars, codecVars>>

\* a request whose {spec} decodes reaches retrieve_image(url)
Call(r, u) ==
    /\ pc[r] = "idle"
    /\ pc' = [pc EXCEPT ![r] = "lock1"]
    /\ url' = [url EXCEPT ![r] = u]
    /\ UNCHANGED <<cap, lru, lock, param, data, resp, hit, fetched, status, recency>>
    /\ UNCHANGED <<engineVars, codecVars>>

\* retrieve_image has returned (Ok at "image", Err at "done"); the rest of the
\* request does not touch the cache
Return(r) ==
    /\ pc[r] \in {"image", "done"}
    /\ pc' = [pc EXCEPT ![r] = "idle"]
    /\ url' = [url EXCEPT ![r] = ""]
    /\ data' = [data EXCEPT ![r] = NoData]
    /\ hit' = [hit EXCEPT ![r] = FALSE]
    /\ fetched' = [fetched EXCEPT ![r] = FALSE]
    /\ status' = [status EXCEPT ![r] = "none"]
    /\ UNCHANGED <<cap, lru, lock, param, resp, recency>>
    /\ UNCHANGED <<engineVars, codecVars>>

\* Spec: concurrent calls of retrieve_image against the shared cache
Next ==
    \E r \in Reqs :
        \/ \E u \in Urls : Call(r, u)
        \/ Lock1(r)
        \/ CacheHit(r)
        \/ CacheMiss(r)
        \/ \E st \in {200, 404} : GetOk(r, st)
        \/ GetErr(r)
        \/ \E variant \in {"image", "errpage"} : BytesOk(r, variant)
        \/ BytesErr(r)
        \/ Lock2(r)
        \/ CachePut(r)
        \/ Return(r)

Spec == Init /\ [][Next]_vars

\* HandlerSpec: concurrent requests through the whole of generate
HandlerNext ==
    \E r \in Reqs :
        \/ \E u \in Urls, p \in Params : Accept(r, u, p)
        \/ SpecDecodeErr(r)
        \/ SpecDecodeOk(r)
        \/ Lock1(r)
        \/ CacheHit(r)
        \/ CacheMiss(r)
        \/ \E st \in {200, 404} : GetOk(r, st)
        \/ GetErr(r)
        \/ \E variant \in {"image", "errpage"} : BytesOk(r, variant)
        \/ BytesErr(r)
        \/ Lock2(r)
        \/ CachePut(r)
        \/ EngineTryFromErr(r)
        \/ Render(r)
        \/ Finish(r)

HandlerSpec == Init /\ [][HandlerNext]_vars

\* the {spec} strings of GateSpec: one that does not decode and one that does
GateParams == {Malformed, SpecString(<<>>)}

\* GateSpec: concurrent requests through generate, the {spec} decoded first
GateNext ==
    \E r \in Reqs :
        \/ \E u \in {"a", "b"}, p \in GateParams : Accept(r, u, p)
        \/ SpecDecodeErr(r)
        \/ SpecDecodeOk(r)
        \/ Lock1(r)
        \/ CacheHit(r)
        \/ CacheMiss(r)
        \/ \E st \in {200, 404} : GetOk(r, st)
        \/ GetErr(r)
        \/ \E variant \in {"image", "errpage"} : BytesOk(r, variant)
        \/ BytesErr(r)
        \/ Lock2(r)
        \/ CachePut(r)
        \/ EngineTryFromErr(r)
        \/ Render(r)
        \/ Finish(r)

GateSpec == Init /\ [][GateNext]_vars

\* the steps of request r that need nothing from another request: the
\* lookup and the insert under the lock it holds, the arrival of the
\* response and of its body, and the return
Proceed(r) ==
    \/ CacheHit(r)
    \/ CacheMiss(r)
    \/ \E st \in {200, 404} : GetOk(r, st)
    \/ GetErr(r)
    \/ \E variant \in {"image", "errpage"} : BytesOk(r, variant)
    \/ BytesErr(r)
    \/ CachePut(r)
    \/ Return(r)

\* LiveSpec: concurrent calls of retrieve_image for one url under a fair
\* scheduler: a task that can run is run (every fetch returns), and a task
\* that finds the Mutex free again and again gets it
LiveNext ==
    \E r \in Reqs :
        \/ Call(r, "a")
        \/ Lock1(r)
        \/ Lock2(r)
        \/ Proceed(r)

LiveSpec ==
    /\ Init
    /\ [][LiveNext]_vars
    /\ \A r \in Reqs : WF_vars(Proceed(r))
    /\ \A r \in Reqs : SF_vars(Lock1(r)) /\ SF_vars(Lock2(r))

\* AliasSpec: concurrent calls of retrieve_image with urls that share a key
AliasNext ==
    \E r \in Reqs :
        \/ \E u \in AliasUrls : Call(r, u)
        \/ Lock1(r)
        \/ CacheHit(r)
        \/ CacheMiss(r)
        \/ \E st \in {200, 404} : GetOk(r, st)
        \/ GetErr(r)
        \/ \E variant \in {"image", "errpage"} : BytesOk(r, variant)
        \/ BytesErr(r)
        \/ Lock2(r)
        \/ CachePut(r)
        \/ Return(r)

AliasSpec == Init /\ [][AliasNext]_vars

(***************************************************************************)
(* The {spec} string (pb/mod.rs): the prost encoding of ImageSpec as       *)
(* bytes, then base64 with the url-safe alphabet and no padding.  Bytes    *)
(* are numbers 0..255, a string is a sequence of characters.  A result     *)
(* that can fail is a record with an `ok` field.                           *)
(***************************************************************************)
\* the alphabet of base64::engine::general_purpose::URL_SAFE_NO_PAD
B64Alphabet ==
    << "A", "B", "C", "D", "E", "F", "G", "H", "I", "J", "K", "L", "M",
       "N", "O", "P", "Q", "R", "S", "T", "U", "V", "W", "X", "Y", "Z",
       "a", "b", "c", "d", "e", "f", "g", "h", "i", "j", "k", "l", "m",
       "n", "o", "p", "q", "r", "s", "t", "u", "v", "w", "x", "y", "z",
       "0", "1", "2", "3", "4", "5", "6", "7", "8", "9", "-", "_" >>

B64Char(v) == B64Alphabet[v + 1]

\* the 6-bit value of a character, -1 for a character outside the alphabet
\* (among them the padding "=" and the "+" and "/" of the standard alphabet)
B64Index(c) ==
    IF \E i \in 1..64 : B64Alphabet[i] = c
    THEN (CHOOSE i \in 1..64 : B64Alphabet[i] = c) - 1
    ELSE 0 - 1

\* URL_SAFE_NO_PAD.encode(data): 3 bytes give 4 characters, a rest of 1 byte
\* gives 2 and a rest of 2 bytes gives 3, no padding
RECURSIVE B64Encode(_)
B64Encode(bs) ==
    IF Len(bs) = 0 THEN <<>>
    ELSE IF Len(bs) = 1 THEN
        << B64Char(bs[1] \div 4), B64Char((bs[1] % 4) * 16) >>
    ELSE IF Len(bs) = 2 THEN
        << B64Char(bs[1] \div 4),
           B64Char((bs[1] % 4) * 16 + (bs[2] \div 16)),
           B64Char((bs[2] % 16) * 4) >>
    ELSE
        << B64Char(bs[1] \div 4),
           B64Char((bs[1] % 4) * 16 + (bs[2] \div 16)),
           B64Char((bs[2] % 16) * 4 + (bs[3] \div 64)),
           B64Char(bs[3] % 64) >> \o B64Encode(SubSeq(bs, 4, Len(bs)))

\* the bytes of a sequence of 6-bit values
RECURSIVE B64Bytes(_)
B64Bytes(q) ==
    IF Len(q) < 2 THEN <<>>
    ELSE IF Len(q) = 2 THEN << q[1] * 4 + (q[2] \div 16) >>
    ELSE IF Len(q) = 3 THEN
        << q[1] * 4 + (q[2] \div 16), (q[2] % 16) * 16 + (q[3] \div 4) >>
    ELSE
        << q[1] * 4 + (q[2] \div 16), (q[2] % 16) * 16 + (q[3] \div 4),
           (q[3] % 4) * 64 + q[4] >> \o B64Bytes(SubSeq(q, 5, Len(q)))

DecodeFailed == [ok |-> FALSE, bytes |-> <<>>]

\* URL_SAFE_NO_PAD.decode(s): Err for a character outside the alphabet
\* (InvalidByte; padding is not accepted), for a length of 1 modulo 4
\* (InvalidLength) and for non-zero bits after the last whole byte
\* (InvalidLastSymbol)
B64Decode(s) ==
    LET q == [i \in 1..Len(s) |-> B64Index(s[i])]
    IN  IF \E i \in 1..Len(s) : q[i] < 0 THEN DecodeFailed
        ELSE IF Len(s) % 4 = 1 THEN DecodeFailed
        ELSE IF Len(s) % 4 = 2 /\ q[Len(s)] % 16 # 0 THEN DecodeFailed
        ELSE IF Len(s) % 4 = 3 /\ q[Len(s)] % 4 # 0 THEN DecodeFailed
        ELSE [ok |-> TRUE, bytes |-> B64Bytes(q)]

\* prost::encoding::encode_varint: 7 bits a byte, low bits first, the high
\* bit set on every byte but the last
RECURSIVE Varint(_)
Varint(n) ==
    IF n < 128 THEN <<n>> ELSE <<128 + (n % 128)>> \o Varint(n \div 128)

VarintFailed == [ok |-> FALSE, val |-> 0, next |-> 0]

\* prost::encoding::decode_varint at position i of bs: the value and the
\* position after it, or a failure when the bytes end within the varint
RECURSIVE ReadVarint(_, _)
ReadVarint(bs, i) ==
    IF i > Len(bs) THEN VarintFailed
    ELSE IF bs[i] < 128 THEN [ok |-> TRUE, val |-> bs[i], next |-> i + 1]
    ELSE LET r == ReadVarint(bs, i + 1)
         IN  IF ~r.ok THEN VarintFailed
             ELSE [ok |-> TRUE, val |-> (bs[i] - 128) + 128 * r.val, next |-> r.next]

\* the exponent of the binary32 of a whole number m >= 1: floor(log2(m))
RECURSIVE Log2(_)
Log2(m) == IF m < 2 THEN 0 ELSE 1 + Log2(m \div 2)

RECURSIVE Pow2(_)
Pow2(e) == IF e = 0 THEN 1 ELSE 2 * Pow2(e - 1)

\* f32::to_le_bytes of a whole number of magnitude below 2^24: sign bit,
\* biased exponent (8 bits) and fraction (23 bits), low byte first
F32Bytes(v) ==
    IF v = 0 THEN <<0, 0, 0, 0>>
    ELSE LET sgn == IF v < 0 THEN 1 ELSE 0
             e == Log2(Abs(v))
             frac == (Abs(v) - Pow2(e)) * Pow2(23 - e)
             ex == e + 127
         IN  << frac % 256, (frac \div 256) % 256,
                (ex % 2) * 128 + (frac \div 65536), sgn * 128 + (ex \div 2) >>

\* f32::from_le_bytes for the bytes of a whole number (the fraction bits
\* below the binary point are dropped; no other value is drawn here)
F32FromBytes(b) ==
    LET sgn == b[4] \div 128
        ex == (b[4] % 128) * 2 + (b[3] \div 128)
        frac == (b[3] % 128) * 65536 + b[2] * 256 + b[1]
        e == ex - 127
        mag == IF ex = 0 THEN 0
               ELSE IF e < 0 THEN 0
               ELSE IF e >= 23 THEN (8388608 + frac) * Pow2(e - 23)
               ELSE (8388608 + frac) \div Pow2(23 - e)
    IN  IF sgn = 1 THEN 0 - mag ELSE mag

\* the key of a field: (number << 3) | wire type, as a varint.  Wire types:
\* 0 varint, 1 64-bit, 2 length-delimited, 5 32-bit
Key(field, wt) == Varint(field * 8 + wt)

\* an encoder that keeps only the low 7 bits of the value
EncodeUintLow7(field, v) == IF v = 0 THEN <<>> ELSE Key(field, 0) \o <<v % 128>>

\* prost::encoding::uint32::encode / int32::encode, called by encode_raw only
\* when the value is not the default 0
EncodeUint(field, v) == IF v = 0 THEN <<>> ELSE Key(field, 0) \o Varint(v)

\* prost::encoding::float::encode, called only when the value is not 0.0
EncodeFloat(field, v) == IF v = 0 THEN <<>> ELSE Key(field, 5) \o F32Bytes(v)

\* prost::encoding::message::encode: key, length of the body, body
EncodeMessage(field, body) == Key(field, 2) \o Varint(Len(body)) \o body

\* Spec::encode_raw: the member of the oneof `data` that is set, if any
EncodeOp(op) ==
    CASE op.data = "None" -> <<>>
      [] op.data = "Resize" ->
            EncodeMessage(1, EncodeUint(1, op.width) \o EncodeUint(2, op.height)
                             \o EncodeUint(3, op.rtype) \o EncodeUint(4, op.filter))
      [] op.data = "Crop" ->
            EncodeMessage(2, EncodeUint(1, op.x1) \o EncodeUint(2, op.y1)
                             \o EncodeUint(3, op.x2) \o EncodeUint(4, op.y2))
      [] op.data = "Flipv" -> EncodeMessage(3, <<>>)
      [] op.data = "Fliph" -> EncodeMessage(4, <<>>)
      [] op.data = "Contrast" -> EncodeMessage(5, EncodeFloat(1, op.contrast))
      [] op.data = "Filter" -> EncodeMessage(6, EncodeUint(1, op.filter))
      [] op.data = "Watermark" ->
            EncodeMessage(7, EncodeUint(1, op.x) \o EncodeUint(2, op.y))

\* ImageSpec::encode_to_vec: the repeated field `specs`, one message each
RECURSIVE EncodeToVec(_)
EncodeToVec(ops) ==
    IF ops = <<>> THEN <<>>
    ELSE EncodeMessage(1, EncodeOp(Head(ops))) \o EncodeToVec(Tail(ops))

\* From<&ImageSpec> for String
ImageSpecToString(ops) == B64Encode(EncodeToVec(ops))

FieldsFailed == [ok |-> FALSE, fields |-> <<>>]

\* the fields of a message body from position i on, as prost's merge loop
\* reads them (decode_key, then the value by wire type): Err when the bytes
\* end inside a key or a value, for the field number 0 and for a wire type
\* above 5.  Groups (wire types 3 and 4) are rejected as unexpected here.
RECURSIVE ParseFields(_, _)
ParseFields(bs, i) ==
    IF i > Len(bs) THEN [ok |-> TRUE, fields |-> <<>>]
    ELSE
      LET k == ReadVarint(bs, i)
          f == k.val \div 8
          wt == k.val % 8
          size == IF wt = 5 THEN 4 ELSE 8
          v == ReadVarint(bs, k.next)
          from == IF wt = 2 THEN v.next ELSE k.next
          to == IF wt = 2 THEN v.next + v.val - 1 ELSE k.next + size - 1
          rest == ParseFields(bs, IF wt = 0 THEN v.next ELSE to + 1)
      IN  IF ~k.ok \/ f = 0 \/ wt \notin {0, 1, 2, 5} THEN FieldsFailed
          ELSE IF wt \in {0, 2} /\ ~v.ok THEN FieldsFailed
          ELSE IF wt # 0 /\ to > Len(bs) THEN FieldsFailed
          ELSE IF ~rest.ok THEN FieldsFailed
          ELSE [ok |-> TRUE,
                fields |-> <<[field |-> f, wt |-> wt,
                              num |-> IF wt = 0 THEN v.val ELSE 0,
                              bytes |-> IF wt = 0 THEN <<>> ELSE SubSeq(bs, from, to)]>>
                           \o rest.fields]

ValsFailed == [ok |-> FALSE, vals |-> <<>>]

\* merge_field of a message whose fields 1..Len(vals) all have wire type wt
\* (0: uint32 or enumeration, 5: float): a known field with another wire
\* type is an error, an unknown field is skipped, the last value of a field
\* wins
RECURSIVE MergeScalars(_, _, _, _)
MergeScalars(vals, wt, fs, k) ==
    IF k > Len(fs) THEN [ok |-> TRUE, vals |-> vals]
    ELSE IF fs[k].field \in 1..Len(vals) THEN
        IF fs[k].wt # wt THEN ValsFailed
        ELSE MergeScalars(
                [vals EXCEPT ![fs[k].field] =
                    IF wt = 5 THEN F32FromBytes(fs[k].bytes) ELSE fs[k].num],
                wt, fs, k + 1)
    ELSE MergeScalars(vals, wt, fs, k + 1)

\* the member of the oneof `data` a field number of Spec selects
VariantOf(field) ==
    CASE field = 1 -> "Resize"
      [] field = 2 -> "Crop"
      [] field = 3 -> "Flipv"
      [] field = 4 -> "Fliph"
      [] field = 5 -> "Contrast"
      [] field = 6 -> "Filter"
      [] field = 7 -> "Watermark"

\* the fields of an operation in the order of their numbers, and back
OpVals(op) ==
    CASE op.data = "Resize" -> <<op.width, op.height, op.rtype, op.filter>>
      [] op.data = "Crop" -> <<op.x1, op.y1, op.x2, op.y2>>
      [] op.data = "Contrast" -> <<op.contrast>>
      [] op.data = "Filter" -> <<op.filter>>
      [] op.data = "Watermark" -> <<op.x, op.y>>
      [] OTHER -> <<>>

DefaultVals(variant) ==
    CASE variant \in {"Resize", "Crop"} -> <<0, 0, 0, 0>>
      [] variant \in {"Contrast", "Filter"} -> <<0>>
      [] variant = "Watermark" -> <<0, 0>>
      [] OTHER -> <<>>

MkOp(variant, v) ==
    CASE variant = "Resize" -> ResizeSpec(v[1], v[2], v[3], v[4])
      [] variant = "Crop" -> CropSpec(v[1], v[2], v[3], v[4])
      [] variant = "Flipv" -> FlipvSpec
      [] variant = "Fliph" -> FliphSpec
      [] variant = "Contrast" -> ContrastSpec(v[1])
      [] variant = "Filter" -> FilterSpec(v[1])
      [] variant = "Watermark" -> WatermarkSpec(v[1], v[2])

OpFailed == [ok |-> FALSE, op |-> NoneSpec]

\* Spec::merge_field over the fields of one Spec: a field 1..7 must be
\* length-delimited and sets the oneof (merging into the member when it is
\* the one already set), any other field is skipped
RECURSIVE MergeSpec(_, _, _)
MergeSpec(op, fs, k) ==
    IF k > Len(fs) THEN [ok |-> TRUE, op |-> op]
    ELSE IF fs[k].field \in 1..7 THEN
        LET variant == VariantOf(fs[k].field)
            start == IF op.data = variant THEN OpVals(op) ELSE DefaultVals(variant)
            body == ParseFields(fs[k].bytes, 1)
            m == MergeScalars(start, IF variant = "Contrast" THEN 5 ELSE 0,
                              body.fields, 1)
        IN  IF fs[k].wt # 2 \/ ~body.ok \/ ~m.ok THEN OpFailed
            ELSE MergeSpec(MkOp(variant, m.vals), fs, k + 1)
    ELSE MergeSpec(op, fs, k + 1)

SpecsFailed == [ok |-> FALSE, specs |-> <<>>]

\* ImageSpec::merge_field over the fields of the message: field 1 must be
\* length-delimited and appends one Spec, any other field is skipped
RECURSIVE MergeImageSpec(_, _, _)
MergeImageSpec(ops, fs, k) ==
    IF k > Len(fs) THEN [ok |-> TRUE, specs |-> ops]
    ELSE IF fs[k].field = 1 THEN
        LET body == ParseFields(fs[k].bytes, 1)
            m == MergeSpec(NoneSpec, body.fields, 1)
        IN  IF fs[k].wt # 2 \/ ~body.ok \/ ~m.ok THEN SpecsFailed
            ELSE MergeImageSpec(Append(ops, m.op), fs, k + 1)
    ELSE MergeImageSpec(ops, fs, k + 1)

\* ImageSpec::decode(&data[..])
ImageSpecDecode(bs) ==
    LET p == ParseFields(bs, 1)
    IN  IF ~p.ok THEN SpecsFailed ELSE MergeImageSpec(<<>>, p.fields, 1)

\* TryFrom<&str> for ImageSpec, on the characters of the string:
\* URL_SAFE_NO_PAD.decode(s)?, then ImageSpec::decode
ImageSpecFromString(s) ==
    LET d == B64Decode(s)
    IN  IF ~d.ok THEN SpecsFailed ELSE ImageSpecDecode(d.bytes)

(***************************************************************************)
(* CodecSpec: an ImageSpec is turned into its string and the string back   *)
(* into an ImageSpec, as the test of pb/mod.rs does; a string may also     *)
(* arrive as it is, from a client.                                         *)
(***************************************************************************)
\* the operations the encoded lists are drawn from: every member of the
\* oneof, with default and non-default fields, one- and two-byte varints
CodecAlphabet ==
    { NoneSpec,
      ResizeSpec(600, 600, 0, 3), ResizeSpec(0, 0, 1, 0), ResizeSpec(0, 0, 0, 0),
      CropSpec(1, 2, 300, 128), CropSpec(0, 0, 0, 0),
      ContrastSpec(-100), ContrastSpec(0), ContrastSpec(3),
      FilterSpec(3), FilterSpec(0), FilterSpec(9),
      FliphSpec, FlipvSpec,
      WatermarkSpec(0, 0), WatermarkSpec(20, 16384) }

CodecLists == SeqsUpTo(CodecAlphabet, MaxOps)

\* strings that are not the encoding of a list: characters outside the
\* alphabet, padding, a bad length, bad last bits, truncated or mistyped
\* fields; and two that decode: the empty string and an unknown field
RawStrings ==
    { <<"=">>, <<"+">>, <<"A">>, <<"C", "g", "=", "=">>, <<"C", "h">>,
      <<"C", "g">>, <<"C", "A">>, <<"C", "A", "E">>, <<"C", "g", "I", "I", "A", "Q">>,
      <<"C", "g", "M", "y", "A", "Q", "g">>,
      <<>>, <<"E", "A", "E">> }

CodecInit ==
    /\ \/ cpc = "list" /\ clist \in CodecLists /\ cstr = <<>>
       \/ cpc = "raw" /\ clist = <<>> /\ cstr \in RawStrings
    /\ cdec = SpecsFailed
    /\ img0 = Panicked
    /\ specs = <<>>
    /\ engine = Panicked
    /\ idx = 0
    /\ applied = <<>>
    /\ epc = "off"
    /\ out = NoOutput
    /\ cap = Capacity
    /\ lru = <<>>
    /\ lock = NoReq
    /\ pc = <<>>
    /\ url = <<>>
    /\ param = <<>>
    /\ data = <<>>
    /\ resp = <<>>
    /\ hit = <<>>
    /\ fetched = <<>>
    /\ status = <<>>
    /\ recency = <<>>

\* let spec_str: String = (&image_spec).into()
EncodeSpec ==
    /\ cpc = "list"
    /\ cstr' = ImageSpecToString(clist)
    /\ cpc' = "encoded"
    /\ UNCHANGED <<clist, cdec>>
    /\ UNCHANGED <<cacheVars, engineVars>>

\* spec_str.as_str().try_into() is Ok
TryFromOk ==
    /\ cpc \in {"encoded", "raw"}
    /\ ImageSpecFromString(cstr).ok
    /\ cdec' = ImageSpecFromString(cstr)
    /\ cpc' = IF cpc = "encoded" THEN "roundtrip" ELSE "parsed"
    /\ UNCHANGED <<clist, cstr>>
    /\ UNCHANGED <<cacheVars, engineVars>>

\* spec_str.as_str().try_into() is Err
TryFromErr ==
    /\ cpc \in {"encoded", "raw"}
    /\ ~ImageSpecFromString(cstr).ok
    /\ cdec' = SpecsFailed
    /\ cpc' = IF cpc = "encoded" THEN "lost" ELSE "rejected"
    /\ UNCHANGED <<clist, cstr>>
    /\ UNCHANGED <<cacheVars, engineVars>>

CodecNext == EncodeSpec \/ TryFromOk \/ TryFromErr

CodecSpec == CodecInit /\ [][CodecNext]_vars

(***************************************************************************)
(* Properties of the source cache (Spec) and of the handler (HandlerSpec)  *)
(***************************************************************************)
\* r leaves the lookup in this step
Looked(r) == pc[r] = "get" /\ pc'[r] # "get"
\* r performs guard.put in this step
Inserted(r) == pc[r] = "put" /\ pc'[r] = "image"
\* the fetch of r fails in this step
FetchFailed(r) == pc[r] \in {"fetch", "body"} /\ pc'[r] = "done"

\* C1: a call whose key is in the cache when it looks it up never invokes the
\* fetch: it leaves the lookup with the stored bytes as its result, the entry
\* is then the most recently used one, and no entry is added, lost or changed.
C1_HitAvoidsFetch ==
    /\ [][\A r \in Reqs :
            (Looked(r) /\ Hash(url[r]) \in Keys(lru)) =>
                /\ pc'[r] = "image"
                /\ ~fetched'[r]
                /\ data'[r] = LruPeek(lru, Hash(url[r]))
                /\ lru'[1] = [key |-> Hash(url[r]), val |-> data'[r]]
                /\ Len(lru') = Len(lru)
                /\ \A k \in Keys(lru) : k \in Keys(lru') /\ LruPeek(lru', k) = LruPeek(lru, k)]_vars
    /\ [](\A r \in Reqs : hit[r] => (~fetched[r] /\ pc[r] \in {"image", "done"}))

\* C1 witness: a call that hit an entry that was not the most recent one has
\* been answered from the cache
C1_Witness ==
    \E r \in Reqs :
        /\ hit[r] /\ ~fetched[r] /\ pc[r] = "image"
        /\ Len(lru) = 2 /\ lru[1].key = Hash(url[r]) /\ lru[1].val = data[r]

\* C2: when the fetch for a missing key fails the request gets the error
\* (BAD_REQUEST) and neither the failed step nor the lookup before it changes
\* the cache or its recency order; nothing is stored for the key, so a lookup
\* that finds the key absent always goes on to fetch.
C2_FetchFailureLeavesCache ==
    [][\A r \in Reqs :
        /\ FetchFailed(r) =>
              /\ lru' = lru /\ recency' = recency /\ cap' = cap
              /\ status'[r] = "400" /\ data'[r] = NoData
        /\ (Looked(r) /\ Hash(url[r]) \notin Keys(lru)) =>
              /\ lru' = lru /\ recency' = recency
              /\ pc'[r] = "fetch" /\ fetched'[r]]_vars

\* C2 witness: a request whose fetch failed has been answered with the error,
\* and a later lookup of the same url, now under the lock, finds the key absent
C2_Witness ==
    \E r, q \in Reqs :
        /\ r # q /\ url[r] = url[q]
        /\ pc[r] = "done" /\ fetched[r] /\ status[r] = "400" /\ data[r] = NoData
        /\ pc[q] = "get" /\ lock = q /\ Hash(url[q]) \notin Keys(lru)
        /\ lru # <<>>

\* C3: no request holds the cache lock while its fetch is in progress; the
\* lock is held only for the lookup and for the insert.
C3_NoLockAcrossFetch ==
    /\ lock \in Reqs \cup {NoReq}
    /\ \A r \in Reqs :
        /\ pc[r] \in {"fetch", "body"} => lock # r
        /\ lock = r => pc[r] \in {"get", "put"}

\* C3 witness: while one request waits for its response body another one holds
\* the lock and inserts
C3_Witness ==
    \E r, q \in Reqs : r # q /\ pc[r] = "body" /\ lock = q /\ pc[q] = "put"

\* C4: every insert leaves exactly one entry for its key, holding the bytes
\* the inserting request fetched (whatever was stored before), and the request
\* returns those bytes; so of two requests that both missed and fetched the
\* same url the later insert decides the cached value.
C4_LastWriteWins ==
    /\ [][\A r \in Reqs :
            Inserted(r) =>
                /\ Cardinality({i \in 1..Len(lru') : lru'[i].key = Hash(url[r])}) = 1
                /\ LruPeek(lru', Hash(url[r])) = data[r]
                /\ data'[r] = data[r]]_vars
    /\ [](\A r \in Reqs :
            (fetched[r] /\ pc[r] \in {"lock2", "put", "image"}) => data[r].url = url[r])
    /\ [](Cardinality(Keys(lru)) = Len(lru))

\* C4 witness: two requests for the same url both missed and both fetched,
\* they got different bytes, both have inserted, each holds its own bytes and
\* the cache holds those of one of them
C4_Witness ==
    \E r, q \in Reqs :
        /\ r # q /\ url[r] = url[q]
        /\ fetched[r] /\ fetched[q]
        /\ pc[r] \in {"image", "done"} /\ pc[q] \in {"image", "done"}
        /\ data[r].v = "image" /\ data[q].v = "errpage"
        /\ Hash(url[r]) \in Keys(lru)
        /\ LruPeek(lru, Hash(url[r])) = data[q]
        /\ Cardinality({i \in 1..Len(lru) : lru[i].key = Hash(url[r])}) = 1

\* the key of `keys` accessed least recently
LeastRecent(rec, keys) ==
    rec[CHOOSE i \in 1..Len(rec) :
            /\ rec[i] \in keys
            /\ \A j \in 1..Len(rec) : rec[j] \in keys => j <= i]

\* C5: when the cache is full, the insert of a key that is not present removes
\* exactly one entry, the one accessed (by a hit or an insert) least recently;
\* every other entry stays with its value.
C5_EvictsLeastRecent ==
    [][\A r \in Reqs :
        (Inserted(r) /\ Len(lru) = cap /\ Hash(url[r]) \notin Keys(lru)) =>
            LET victim == LeastRecent(recency, Keys(lru))
            IN  /\ Keys(lru') = (Keys(lru) \ {victim}) \cup {Hash(url[r])}
                /\ Len(lru') = Len(lru)
                /\ LruPeek(lru', Hash(url[r])) = data[r]
                /\ \A k \in Keys(lru) \ {victim} : LruPeek(lru', k) = LruPeek(lru, k)]_vars

\* C5 witness: an entry has been evicted from the full cache
C5_Witness ==
    /\ Len(lru) = cap
    /\ Len(recency) = cap + 1
    /\ recency[cap + 1] \notin Keys(lru)
    /\ \A i \in 1..cap : lru[i].key = recency[i]

\* C6: the cache never holds more entries than its capacity, and the capacity
\* stays the one given at construction.
C6_CapacityBound ==
    /\ Len(lru) <= cap
    /\ cap = Capacity

\* C6 witness: a request is about to insert a new key into the full cache
C6_Witness ==
    \E r \in Reqs :
        pc[r] = "put" /\ Len(lru) = cap /\ Hash(url[r]) \notin Keys(lru)

\* the status the first failing stage of a request calls for
ExpectedStatus(r) ==
    IF ~param[r].decodes THEN "400"
    ELSE IF data[r] = NoData THEN "400"
    ELSE IF ~ImageLoads(data[r]) THEN "500"
    ELSE IF Generate(ApplyAll(LoadFromMemory(data[r]), param[r].specs), OutputFormat).result
                = "panic" THEN "500"
    ELSE "200 image/png"

\* C10: every request ends in the outcome of its first failing stage: 400 for
\* a spec decode or fetch failure, 500 for an image that does not load or an
\* encode failure, otherwise the encoded image with the png content type.
C10_OutcomeByStage ==
    \A r \in Reqs : pc[r] = "done" => status[r] = ExpectedStatus(r)

\* C11: a fetch that completes with a non-success response is a FetchError:
\* the request that received it goes on to the error return with a
\* client-error status and without touching the cache, and no cache entry
\* ever holds the body of a non-success response.
C11_NonSuccessIsFetchError ==
    /\ [][\A r \in Reqs :
            (pc[r] = "body" /\ resp[r] # 200 /\ pc'[r] # "body") =>
                /\ pc'[r] = "done"
                /\ status'[r] = "400"
                /\ data'[r] = NoData]_vars
    /\ [](\A i \in 1..Len(lru) : lru[i].val.v # "errpage")

\* C18: the bytes retrieve_image(url) returns, on a hit or on a miss, are
\* bytes that a fetch of that same url string returned, never bytes fetched
\* for another url, whatever the hash function from urls to keys is.
C18_BytesOfSameUrl ==
    \A r \in Reqs :
        /\ pc[r] = "image" => data[r].url = url[r]
        /\ (pc[r] = "get" /\ lock = r /\ Hash(url[r]) \in Keys(lru)) =>
              LruPeek(lru, Hash(url[r])).url = url[r]

\* r is a request whose {spec} does not decode, before or after this step
Undecodable(r) ==
    \/ pc[r] # "idle" /\ ~param[r].decodes
    \/ pc[r] = "idle" /\ pc'[r] # "idle" /\ ~param'[r].decodes

\* C19: a request whose {spec} fails to decode is rejected before the cache
\* is consulted: it goes from the decode straight to the 400 answer, never
\* takes the lock, never looks up, never fetches, and none of its steps
\* changes the cache contents or the recency order, whatever its {url} is.
C19_RejectedBeforeCache ==
    /\ [][\A r \in Reqs :
            (Undecodable(r) /\ pc'[r] # pc[r]) =>
                /\ lru' = lru /\ recency' = recency /\ lock' = lock /\ cap' = cap
                /\ pc[r] = "spec" => (pc'[r] = "done" /\ status'[r] = "400")]_vars
    /\ [](\A r \in Reqs :
            (pc[r] # "idle" /\ ~param[r].decodes) =>
                /\ pc[r] \in {"spec", "done"}
                /\ ~fetched[r] /\ ~hit[r] /\ lock # r
                /\ data[r] = NoData
                /\ pc[r] = "done" => status[r] = "400")

\* C19 witness: a request with a malformed {spec} has been answered 400 while
\* the cache holds an entry for another url and none for its own, and another
\* request is in the middle of its fetch
C19_Witness ==
    \E r, q \in Reqs :
        /\ r # q
        /\ pc[r] = "done" /\ param[r] = Malformed /\ status[r] = "400"
        /\ lru # <<>> /\ Hash(url[r]) \notin Keys(lru)
        /\ pc[q] = "body"

DoneOps == SubSeq(specs, 1, Len(applied))
RestOps == SubSeq(specs, Len(applied) + 1, Len(specs))

\* C7: apply dispatches the operations in list order, each exactly once and
\* each on the buffer the previous one left: after any number of iterations
\* the positions dispatched are 1, 2, .. in order, the buffer is the result
\* of the operations so far, and applying the rest to it gives the result of
\* the whole list (for every split L1 ++ L2 of the list); apply returns only
\* when every operation has been dispatched.
C7_ApplyInOrder ==
    /\ applied = [i \in 1..Len(applied) |-> i]
    /\ idx = Len(applied) + 1
    /\ engine = ApplyAll(img0, DoneOps)
    /\ ApplyAll(engine, RestOps) = ApplyAll(img0, specs)
    /\ \A k \in 0..Len(specs) :
          ApplyAll(ApplyAll(img0, SubSeq(specs, 1, k)), SubSeq(specs, k + 1, Len(specs)))
             = ApplyAll(img0, specs)
    /\ epc \in {"generate", "done"} => Len(applied) = Len(specs)

\* C7 witness: a list of two operations whose order matters has been applied
\* and the output generated
C7_Witness ==
    /\ epc = "done" /\ out.result = "bytes"
    /\ Len(specs) = 2 /\ applied = <<1, 2>>
    /\ ApplyAll(img0, <<specs[2], specs[1]>>) # engine
    /\ ApplyAll(img0, <<specs[2], specs[1]>>) # Panicked

\* the tint of a preset
Tint(preset) ==
    CASE preset = "Oceanic" -> <<0, 89, 173>>
      [] preset = "Islands" -> <<0, 24, 95>>
      [] preset = "Marine" -> <<0, 14, 119>>

\* the blend of buffer b with tint t at opacity 0.2, alpha kept
Blended(b, t) ==
    [y \in 1..b.h |-> [x \in 1..b.w |->
        <<MixChannel(b.px[y][x][1], t[1], 2), MixChannel(b.px[y][x][2], t[2], 2),
          MixChannel(b.px[y][x][3], t[3], 2), b.px[y][x][4]>>]]

\* C8: a Filter with a tint preset blends the tint into every pixel of the
\* buffer also when it follows a Resize: for <<Resize{w, h, Normal, kernel},
\* Filter{preset}>> on an opaque source the output is w x h and its pixels are
\* those of the resize alone blended with the preset's tint at opacity 0.2.
C8_FilterAfterResizeBlends ==
    (/\ img0.fmt = "Rgb8"
     /\ Len(specs) = 2 /\ Len(applied) = 2
     /\ specs[1].data = "Resize"
     /\ ResizeTypeTryFrom(specs[1].rtype) = "Normal"
     /\ SampleFilterTryFrom(specs[1].filter) # "Err"
     /\ specs[1].width > 0 /\ specs[1].height > 0
     /\ specs[2].data = "Filter"
     /\ FilterTryFrom(specs[2].filter) \in {"Oceanic", "Islands", "Marine"})
    => /\ engine.w = specs[1].width /\ engine.h = specs[1].height
       /\ engine.px = Blended(ApplyAll(img0, <<specs[1]>>),
                              Tint(FilterTryFrom(specs[2].filter)))

\* the buffer before the last operation dispatched
BeforeLast == ApplyAll(img0, SubSeq(specs, 1, Len(applied) - 1))

\* an operation whose filter, mode or preset field holds no known enumerator
UnknownEnum(op) ==
    \/ op.data = "Resize" /\ ResizeTypeTryFrom(op.rtype) = "Err"
    \/ op.data = "Resize" /\ ResizeTypeTryFrom(op.rtype) = "Normal"
                          /\ SampleFilterTryFrom(op.filter) = "Err"
    \/ op.data = "Filter" /\ FilterTryFrom(op.filter) = "Err"

\* C9: an operation with an unknown enumerator value does not fail: apply goes
\* on, and a Normal Resize with an unknown filter resamples with Nearest.
C9_OperationsTotal ==
    (Len(applied) >= 1 /\ UnknownEnum(specs[Len(applied)]))
    => /\ engine # Panicked
       /\ epc # "panicked"
       /\ (specs[Len(applied)].data = "Resize"
            /\ ResizeTypeTryFrom(specs[Len(applied)].rtype) = "Normal")
          => engine = ImageopsResize(BeforeLast, specs[Len(applied)].width,
                                     specs[Len(applied)].height, "Nearest")

(***************************************************************************)
(* Properties of the {spec} string (CodecSpec)                             *)
(***************************************************************************)
\* C12: for every operation list L, decoding the string produced by
\* encoding L succeeds and yields a list equal to L: same operations, same
\* fields, same order.
C12_RoundTrip ==
    /\ cpc # "lost"
    /\ cpc = "roundtrip" =>
          /\ cdec.ok
          /\ Len(cdec.specs) = Len(clist)
          /\ \A i \in 1..Len(clist) : cdec.specs[i] = clist[i]

\* C12 witness: the list of the test of pb/mod.rs (resize 600x600 with
\* CatmullRom, then the Marine filter) has been encoded to its string and
\* decoded again
C12_Witness ==
    /\ cpc = "roundtrip"
    /\ clist = <<ResizeSpec(600, 600, 0, 3), FilterSpec(3)>>
    /\ cstr = << "C", "g", "o", "K", "C", "A", "j", "Y", "B", "B", "D", "Y",
                 "B", "C", "A", "D", "C", "g", "Q", "y", "A", "g", "g", "D" >>
    /\ cdec.specs = clist

(***************************************************************************)
(* Properties of single operations (TransformSpec)                         *)
(***************************************************************************)
\* the operation of TransformSpec, once it has been applied
TheOp == specs[1]
Applied(kind) == applied = <<1>> /\ TheOp.data = kind

\* the rectangle of a Crop clamped to a buffer
ClampedCrop(img, op) ==
    CropSpec(Min(op.x1, img.w), Min(op.y1, img.h), Min(op.x2, img.w), Min(op.y2, img.h))

Degenerate(op) == op.x2 <= op.x1 \/ op.y2 <= op.y1

\* C13: a Crop whose rectangle, clamped to the buffer, has x2 <= x1 or
\* y2 <= y1 does not fail and leaves the buffer unchanged: same dimensions,
\* same pixels, same pixel format.
C13_DegenerateCropNoOp ==
    (Applied("Crop") /\ Degenerate(ClampedCrop(img0, TheOp)))
    => /\ engine # Panicked
       /\ epc # "panicked"
       /\ engine.w = img0.w /\ engine.h = img0.h
       /\ engine.px = img0.px
       /\ engine.fmt = img0.fmt

\* C13 witness: a Crop with x1 < x2 and y1 < y2 that lies to the right of an
\* opaque Rgb8 buffer, so that only the clamping makes it degenerate, has
\* been applied and the output generated
C13_Witness ==
    /\ Applied("Crop") /\ epc = "done" /\ out.result = "bytes"
    /\ img0.fmt = "Rgb8"
    /\ TheOp.x1 < TheOp.x2 /\ TheOp.y1 < TheOp.y2
    /\ TheOp.x1 >= img0.w
    /\ Degenerate(ClampedCrop(img0, TheOp))
    /\ engine = img0

\* C14: a Crop gives the same result as the Crop with x1, x2 clamped to the
\* width and y1, y2 to the height; when the clamped rectangle is not
\* degenerate the new buffer has the dimensions (x2 - x1) x (y2 - y1) of the
\* clamped values and holds exactly the source pixels of that rectangle, all
\* of them inside the source.
C14_CropClamps ==
    Applied("Crop") =>
        LET c == ClampedCrop(img0, TheOp)
        IN  /\ engine = Transform(img0, c)
            /\ ~Degenerate(c) =>
                  /\ engine.w = c.x2 - c.x1
                  /\ engine.h = c.y2 - c.y1
                  /\ c.x2 <= img0.w /\ c.y2 <= img0.h
                  /\ DOMAIN engine.px = 1..engine.h
                  /\ \A j \in 1..engine.h :
                        /\ DOMAIN engine.px[j] = 1..engine.w
                        /\ \A i \in 1..engine.w :
                              engine.px[j][i] = img0.px[c.y1 + j][c.x1 + i]

\* C14 witness: a Crop whose x2 and y2 lie beyond the buffer and whose x1, y1
\* are not the origin has cut out a smaller, non-empty part of the buffer
C14_Witness ==
    /\ Applied("Crop") /\ epc = "done"
    /\ TheOp.x2 > img0.w /\ TheOp.y2 > img0.h
    /\ TheOp.x1 > 0 /\ TheOp.y1 > 0
    /\ engine.w = img0.w - TheOp.x1 /\ engine.h = img0.h - TheOp.y1
    /\ engine.w >= 2 /\ engine.h >= 1
    /\ engine.px[1][1] = img0.px[TheOp.y1 + 1][TheOp.x1 + 1]

\* the Resize of TransformSpec in SeamCarve mode has been applied
SeamCarved == Applied("Resize") /\ ResizeTypeTryFrom(TheOp.rtype) = "SeamCarve"

\* C15: for every source size (w, h) and every target (tw, th) Resize/SeamCarve
\* ends with a buffer of size (min(w, tw), min(h, th)): no axis grows, the
\* width pass removes w - min(w, tw) seams and the height pass h - min(h, th),
\* one at a time, each removal taking exactly 1 from the carved axis.
C15_SeamCarveShrinks ==
    SeamCarved =>
        LET tw == Min(img0.w, TheOp.width)
            th == Min(img0.h, TheOp.height)
            carved == RemoveSeams(img0, img0.w - tw)
        IN  /\ engine # Panicked
            /\ epc # "panicked"
            /\ engine.w = tw /\ engine.h = th
            /\ engine.w <= img0.w /\ engine.h <= img0.h
            /\ \A k \in 0..(img0.w - tw) :
                  /\ RemoveSeams(img0, k).w = img0.w - k
                  /\ RemoveSeams(img0, k).h = img0.h
            /\ \A k \in 0..(img0.h - th) :
                  /\ RemoveSeams(Rotate90(carved), k).w = img0.h - k
                  /\ RemoveSeams(Rotate90(carved), k).h = tw

AfterWidthPass == RemoveSeams(img0, img0.w - Min(img0.w, TheOp.width))

\* column x of a buffer, top to bottom
Column(img, x) == [y \in 1..img.h |-> img.px[y][x]]

\* s is t with some elements left out, the others in the order of t
IsSubSeq(s, t) ==
    \E f \in [1..Len(s) -> 1..Len(t)] :
        /\ \A i \in 1..Len(s) : s[i] = t[f[i]]
        /\ \A i \in 1..(Len(s) - 1) : f[i] < f[i + 1]

\* C17: in the height pass of Resize/SeamCarve the rotation after the seam
\* removals undoes the rotation before them (their composition is the
\* identity on a buffer), so a height pass that completes keeps the
\* orientation: the width is that left by the width pass, and every column
\* of the result holds pixels of the same column of the buffer before the
\* pass, in their top-to-bottom order.
C17_RotationRestored ==
    /\ engine # Panicked =>
          /\ Rotate270(Rotate90(engine)) = ToRgba8(engine)
          /\ Rotate90(Rotate270(engine)) = ToRgba8(engine)
    /\ (SeamCarved /\ engine # Panicked /\ TheOp.height < img0.h) =>
          /\ engine.w = AfterWidthPass.w
          /\ engine.h = TheOp.height
          /\ \A x \in 1..engine.w :
                IsSubSeq(Column(engine, x), Column(AfterWidthPass, x))

\* C17 witness: the height pass has taken one row's worth of pixels out of a
\* 3x3 buffer whose width was kept, and the output has been generated
C17_Witness ==
    /\ SeamCarved /\ epc = "done" /\ out.result = "bytes"
    /\ img0.w = 3 /\ img0.h = 3
    /\ TheOp.width >= 3 /\ TheOp.height = 2
    /\ engine.w = 3 /\ engine.h = 2
    /\ Rotate90(engine) # ToRgba8(engine)

====
